---- MODULE Spec2Model ----
(***************************************************************************)
(* A model of the trace classifier of brontes                              *)
(* (crates/brontes-classifier/src/classifier.rs): Classifier::build_tree, *)
(* classify_node, decode_transfer, the dynamic exchange inference pass and *)
(* the known_dyn_protocols cache behind its reader-writer lock.            *)
(*                                                                         *)
(* A Rust panic (an out-of-range index or slice, unwrap() of None or Err)  *)
(* is a defined outcome of the code and is modelled as the value Panic, or *)
(* as the control state "panicked" of the call that unwinds.               *)
(***************************************************************************)
EXTENDS Integers, Sequences, FiniteSets, TLC

(***************************************************************************)
(* Bounds of the model.                                                    *)
(***************************************************************************)
MaxTxs == 2
MaxLogs == 2
MaxAmount == 2
MaxTransfers == 3

(***************************************************************************)
(* Widths of the program's byte strings.                                   *)
(***************************************************************************)
AddrLen == 20
WordLen == 32
SigLen == 4

None == [kind |-> "None"]
Panic == [kind |-> "Panic"]
Some(v) == [kind |-> "Some", val |-> v]

(***************************************************************************)
(* Addresses are 20-byte strings, topics 32-byte words.                    *)
(***************************************************************************)
Addr(n) == [i \in 1..AddrLen |-> n]
PoolAddr == Addr(1)
TokenA == Addr(2)
TokenB == Addr(3)
UserAddr == Addr(4)
StaticAddr == Addr(5)
StaticNoClassifier == Addr(6)
BuilderAddr == Addr(7)

\* An ABI-encoded indexed address: the 20 bytes in the low-order end of the word.
LeftPad(a) == [i \in 1..WordLen |-> IF i <= WordLen - AddrLen THEN 0 ELSE a[i - (WordLen - AddrLen)]]
\* The 20 bytes in the high-order end of the word.
RightPad(a) == [i \in 1..WordLen |-> IF i <= AddrLen THEN a[i] ELSE 0]
\* A big-endian 32-byte amount (amounts of the model fit two bytes).
BeEncode(n) == [i \in 1..WordLen |-> IF i = WordLen THEN n % 256 ELSE IF i = WordLen - 1 THEN (n \div 256) % 256 ELSE 0]

TRANSFER_TOPIC == <<221, 242, 82, 173, 27, 226, 200, 155, 105, 194, 176, 104, 252, 55, 141, 170, 149, 43, 167, 241, 99, 196, 161, 22, 40, 245, 90, 77, 245, 35, 179, 239>>
\* Another event's topic0 (Approval(address,address,uint256)).
APPROVAL_TOPIC == <<140, 91, 225, 229, 235, 236, 125, 91, 209, 79, 113, 66, 125, 30, 132, 243, 221, 3, 20, 192, 247, 178, 41, 30, 91, 32, 10, 200, 199, 195, 185, 37>>

\* Address::from_slice(&topic[..20])
AddressFromSlice(w) == SubSeq(w, 1, AddrLen)

RECURSIVE BeValue(_)
BeValue(s) == IF s = <<>> THEN 0 ELSE BeValue(SubSeq(s, 1, Len(s) - 1)) * 256 + s[Len(s)]

\* U256::try_from_be_slice: leading zero bytes are ignored, None when the
\* value does not fit 32 bytes.
U256TryFromBeSlice(data) ==
    IF \E i \in 1..(Len(data) - WordLen) : data[i] # 0
    THEN None
    ELSE Some(BeValue(data))

\* decode_transfer, lines 321-330: topics[1] and topics[2] are indexed
\* without a length check and the amount is unwrapped.
DecodedTransfer(log, data) ==
    IF data.kind = "None"
    THEN Panic
    ELSE Some([token |-> log.address,
               from  |-> AddressFromSlice(log.topics[2]),
               to    |-> AddressFromSlice(log.topics[3]),
               value |-> data.val])

decode_transfer(log) ==
    IF Len(log.topics) >= 1 /\ log.topics[1] = TRANSFER_TOPIC
    THEN IF Len(log.topics) < 3
         THEN Panic
         ELSE DecodedTransfer(log, U256TryFromBeSlice(log.data))
    ELSE None

(***************************************************************************)
(* The static protocol table and its decoders (generated code of the       *)
(* repository that is not among the sources): an address maps to an        *)
(* optional action classifier and the protocol's call bindings.            *)
(***************************************************************************)
PROTOCOL_ADDRESS_MAPPING == (StaticAddr :> TRUE) @@ (StaticNoClassifier :> FALSE)

SwapSelector == <<18, 138, 203, 8>>
FeeSelector == <<221, 202, 63, 67>>
UnknownSelector == <<0, 0, 0, 0>>
AbiSelectors == {SwapSelector, FeeSelector}
\* The arguments of the model's swap call: token_in, token_out, amount_in, amount_out.
SwapArgLen == 4

\* try_decode: the call bindings reject an unknown selector and truncated arguments.
try_decode(calldata) ==
    LET sig == SubSeq(calldata, 1, SigLen)
    IN  IF sig = SwapSelector /\ Len(calldata) = SigLen + SwapArgLen THEN Some(calldata)
        ELSE IF sig = FeeSelector /\ Len(calldata) = SigLen THEN Some(calldata)
        ELSE None

\* dispatch: the classifier has a decoder for the swap call only.
dispatch(sig, index, res, from_address, target_address) ==
    IF sig = SwapSelector
    THEN Some([kind |-> "Swap", index |-> index, from |-> from_address, pool |-> target_address,
               token_in |-> Addr(res[SigLen + 1]), token_out |-> Addr(res[SigLen + 2]),
               amount_in |-> res[SigLen + 3], amount_out |-> res[SigLen + 4]])
    ELSE None

get_from_addr(trace) == trace.from
get_to_address(trace) == trace.to

Transfer(index, to, from, token, amount) ==
    [kind |-> "Transfer", index |-> index, to |-> to, from |-> from, token |-> token, amount |-> amount]
Unclassified(trace, logs) == [kind |-> "Unclassified", trace |-> trace, logs |-> logs]

\* classify_node, lines 170-189: the static decoder of the target address.
Dispatched(trace, index, res) ==
    IF res.kind = "None"
    THEN Panic
    ELSE dispatch(SubSeq(trace.calldata, 1, SigLen), index, res.val,
                  get_from_addr(trace), get_to_address(trace))

static_classify(trace, index) ==
    IF get_to_address(trace) \in DOMAIN PROTOCOL_ADDRESS_MAPPING
       /\ PROTOCOL_ADDRESS_MAPPING[get_to_address(trace)]
    THEN IF Len(trace.calldata) < SigLen
         THEN Panic
         ELSE Dispatched(trace, index, try_decode(trace.calldata))
    ELSE None

\* The filter with a test of topic0 added.
CallerLogsOnlyTransfers(trace) ==
    SelectSeq(trace.logs, LAMBDA log : /\ log.address = get_from_addr(trace)
                                       /\ Len(log.topics) >= 1
                                       /\ log.topics[1] = TRANSFER_TOPIC)

\* Lines 191-196: rem, the logs emitted by the record's caller.
CallerLogs(trace) ==
    SelectSeq(trace.logs, LAMBDA log : log.address = get_from_addr(trace))

\* Lines 198-210.
TransferOr(trace, index, rem, d) ==
    IF d.kind = "Panic" THEN Panic
    ELSE IF d.kind = "Some"
         THEN Transfer(index, d.val.to, d.val.from, d.val.token, d.val.value)
         ELSE Unclassified(trace, rem)

\* The fallback that hands every log of the record to Unclassified.
FallbackAllLogs(trace, index, rem) ==
    IF Len(rem) = 1
    THEN TransferOr(trace, index, rem, decode_transfer(rem[1]))
    ELSE Unclassified(trace, trace.logs)

Fallback(trace, index, rem) ==
    IF Len(rem) = 1
    THEN TransferOr(trace, index, rem, decode_transfer(rem[1]))
    ELSE Unclassified(trace, rem)

Classified(trace, index, st) ==
    IF st.kind = "Panic" THEN Panic
    ELSE IF st.kind = "Some" THEN st.val
    ELSE Fallback(trace, index, CallerLogs(trace))

classify_node(trace, index) == Classified(trace, index, static_classify(trace, index))


(***************************************************************************)
(* The tree types (brontes-types tree.rs, not among the sources): a Root   *)
(* keeps its nodes in an arena, nodes[1] is the head and the node built    *)
(* from record i of the transaction is nodes[i + 1]; inner lists the arena *)
(* positions of a node's children.                                         *)
(***************************************************************************)
Node(index, address, data, trace_address) ==
    [index |-> index, inner |-> <<>>, finalized |-> data.kind # "Unclassified",
     address |-> address, data |-> data, trace_address |-> trace_address, removed |-> FALSE]

IsProperPrefix(p, q) == Len(p) < Len(q) /\ SubSeq(q, 1, Len(p)) = p

SetMax(S) == CHOOSE x \in S : \A y \in S : y <= x

\* Root::insert walks down from the head along the new node's trace-address
\* path and stops at the deepest node whose path is a prefix of it.
OnPath(nodes, kids, path) ==
    {k \in 1..Len(kids) : IsProperPrefix(nodes[kids[k]].trace_address, path)}

RECURSIVE FindParent(_, _, _)
FindParent(nodes, cur, path) ==
    IF OnPath(nodes, nodes[cur].inner, path) = {}
    THEN cur
    ELSE FindParent(nodes, nodes[cur].inner[SetMax(OnPath(nodes, nodes[cur].inner, path))], path)

Attach(root, node, parent) ==
    [root EXCEPT !.nodes = Append([@ EXCEPT ![parent].inner = Append(@, Len(root.nodes) + 1)], node)]

RootInsert(root, node) == Attach(root, node, FindParent(root.nodes, 1, node.trace_address))

\* The arena positions of the subtree of pos, pos included.
RECURSIVE Subtree(_, _)
Subtree(nodes, pos) ==
    {pos} \cup UNION {Subtree(nodes, nodes[pos].inner[k]) : k \in 1..Len(nodes[pos].inner)}

\* Node::get_all_sub_actions: the actions of the subtree, children first.
RECURSIVE SubActionsOfAll(_, _)
SubActionsOfAll(nodes, kids) ==
    IF kids = <<>> THEN <<>>
    ELSE SubActionsOfAll(nodes, nodes[Head(kids)].inner) \o <<nodes[Head(kids)].data>>
         \o SubActionsOfAll(nodes, Tail(kids))
get_all_sub_actions(nodes, pos) == SubActionsOfAll(nodes, <<pos>>)

\* Actions::get_logs: only an Unclassified action carries logs.
get_logs(action) == IF action.kind = "Unclassified" THEN action.logs ELSE <<>>

RECURSIVE FlatLogs(_)
FlatLogs(actions) ==
    IF actions = <<>> THEN <<>> ELSE get_logs(Head(actions)) \o FlatLogs(Tail(actions))

\* A removal that takes the last element when the index is past the end.
VecRemoveClamped(v, i) ==
    IF v = <<>> THEN Panic
    ELSE IF i >= Len(v) THEN [kind |-> "Some", val |-> v[Len(v)], rest |-> SubSeq(v, 1, Len(v) - 1)]
    ELSE [kind |-> "Some", val |-> v[i + 1], rest |-> SubSeq(v, 1, i) \o SubSeq(v, i + 2, Len(v))]

\* Vec::remove(i), i counted from 0: panics when i is not below the length.
VecRemove(v, i) ==
    IF i >= Len(v) THEN Panic
    ELSE [kind |-> "Some", val |-> v[i + 1],
          rest |-> SubSeq(v, 1, i) \o SubSeq(v, i + 2, Len(v))]

\* The decoded transfer events of a log list, in log order.
PushDecoded(d, rest) ==
    IF d.kind = "Panic" \/ rest.kind = "Panic" THEN Panic
    ELSE IF d.kind = "None" THEN rest
    ELSE Some(<<d.val>> \o rest.val)

RECURSIVE DecodeAll(_)
DecodeAll(logs) ==
    IF logs = <<>> THEN Some(<<>>)
    ELSE PushDecoded(decode_transfer(Head(logs)), DecodeAll(Tail(logs)))

\* Line 234: the continue condition of the loop of prove_dyn_action.
SkipKnown(x, addr, token_0, token_1) ==
    (token_0 # x.token /\ token_1 # x.token) \/ (x.from # addr /\ x.to # addr)

\* Line 372: the continue condition of the loop of try_clasify_exchange.
SkipNew(x, addr) == x.from # addr /\ x.to # addr

\* The loop of lines 231-240: the decoded transfers that are kept.
KeptKnown(all, addr, token_0, token_1) ==
    IF all.kind = "Panic" THEN Panic
    ELSE Some(SelectSeq(all.val, LAMBDA x : ~SkipKnown(x, addr, token_0, token_1)))

\* The loop of lines 369-378.
KeptNew(all, addr) ==
    IF all.kind = "Panic" THEN Panic
    ELSE Some(SelectSeq(all.val, LAMBDA x : ~SkipNew(x, addr)))

Mint(index, from, recipient, to, token, amount) ==
    [kind |-> "Mint", index |-> index, from |-> from, recipient |-> recipient, to |-> to,
     token |-> token, amount |-> amount]
Burn(index, from, recipient, to, token, amount) ==
    [kind |-> "Burn", index |-> index, from |-> from, recipient |-> recipient, to |-> to,
     token |-> token, amount |-> amount]
Swap(index, from, pool, token_in, token_out, amount_in, amount_out) ==
    [kind |-> "Swap", index |-> index, from |-> from, pool |-> pool, token_in |-> token_in,
     token_out |-> token_out, amount_in |-> amount_in, amount_out |-> amount_out]

\* prove_dyn_action, lines 242-293: the two-transfer case.
ProveTwo(node, x0, x1) ==
    IF x0.to = x1.to /\ x0.from = x1.from
    THEN IF x0.to = node.address
         THEN Burn(node.index, x0.from, x1.to, x0.to, <<x0.token, x1.token>>, <<x0.value, x1.value>>)
         ELSE Mint(node.index, x0.to, x1.to, x0.to, <<x0.token, x1.token>>, <<x0.value, x1.value>>)
    ELSE IF x0.to = node.address
         THEN Swap(node.index, x1.to, x0.to, x1.token, x0.token, x1.value, x0.value)
         ELSE Swap(node.index, x0.to, x1.to, x0.token, x1.token, x0.value, x1.value)

\* prove_dyn_action, lines 295-316: the one-transfer case.
ProveOne(node, x) ==
    IF x.from = node.address
    THEN Mint(node.index, x.from, x.to, x.to, <<x.token>>, <<x.value>>)
    ELSE Burn(node.index, x.from, x.to, x.to, <<x.token>>, <<x.value>>)

\* Lines 242-244: transfer_data.remove(0), then transfer_data.remove(1).
ProveSecond(node, x0, r1) ==
    IF r1.kind = "Panic" THEN Panic ELSE Some(ProveTwo(node, x0, r1.val))

ProveFirst(node, r0) ==
    IF r0.kind = "Panic" THEN Panic ELSE ProveSecond(node, r0.val, VecRemove(r0.rest, 1))

\* The one-transfer case taken for any non-empty list that is not a pair.
ProvedAtLeastOne(node, td) ==
    IF td.kind = "Panic" THEN Panic
    ELSE IF Len(td.val) = 2 THEN ProveFirst(node, VecRemove(td.val, 0))
    ELSE IF Len(td.val) >= 1 THEN Some(ProveOne(node, td.val[1]))
    ELSE None

Proved(node, td) ==
    IF td.kind = "Panic" THEN Panic
    ELSE IF Len(td.val) = 2 THEN ProveFirst(node, VecRemove(td.val, 0))
    ELSE IF Len(td.val) = 1 THEN Some(ProveOne(node, td.val[1]))
    ELSE None

prove_dyn_action(nodes, pos, token_0, token_1) ==
    Proved(nodes[pos],
           KeptKnown(DecodeAll(FlatLogs(get_all_sub_actions(nodes, pos))),
                     nodes[pos].address, token_0, token_1))

\* is_possible_exchange: some address is both a to and a from of the Transfer actions.
is_possible_exchange(actions) ==
    LET ts == {actions[i] : i \in {j \in 1..Len(actions) : actions[j].kind = "Transfer"}}
    IN  \E x \in ts : \E y \in ts : x.to = y.from

\* Lines 388-418.
Exchange(node, x0, x1) ==
    IF x0.token # x1.token
       /\ (x0.from = node.address \/ x0.to = node.address)
       /\ (x1.from = node.address \/ x1.to = node.address)
       /\ x0.from # x1.from
    THEN Some([addr |-> node.address, tokens |-> <<x0.token, x1.token>>,
               action |-> IF x0.token = node.address
                          THEN Swap(node.index, node.address, x0.to, x1.token, x0.token, x1.value, x0.value)
                          ELSE Swap(node.index, node.address, x1.to, x0.token, x1.token, x0.value, x1.value)])
    ELSE None

\* Lines 385-386: transfer_data.remove(0), then transfer_data.remove(1).
ExchangeSecond(node, x0, r1) ==
    IF r1.kind = "Panic" THEN Panic ELSE Exchange(node, x0, r1.val)

ExchangeFirst(node, r0) ==
    IF r0.kind = "Panic" THEN Panic ELSE ExchangeSecond(node, r0.val, VecRemove(r0.rest, 1))

Exchanged(node, td) ==
    IF td.kind = "Panic" THEN Panic
    ELSE IF Len(td.val) # 2 THEN None
    ELSE ExchangeFirst(node, VecRemove(td.val, 0))

try_clasify_exchange(nodes, pos) ==
    Exchanged(nodes[pos],
              KeptNew(DecodeAll(FlatLogs(get_all_sub_actions(nodes, pos))), nodes[pos].address))

(***************************************************************************)
(* try_classify_unknown_exchanges: the two closures handed to              *)
(* tree.dyn_classify, reading the cache under the read lock.               *)
(***************************************************************************)
\* The selection closure without the test of the static table.
find_closureNoStaticTest(cache, address, sub_actions) ==
    address \in DOMAIN cache \/ is_possible_exchange(sub_actions)

\* The selection closure, lines 430-443.
find_closure(cache, address, sub_actions) ==
    IF address \in DOMAIN PROTOCOL_ADDRESS_MAPPING
    THEN FALSE
    ELSE address \in DOMAIN cache \/ is_possible_exchange(sub_actions)

Outcome(nodes, new, branch) == [kind |-> "Ok", nodes |-> nodes, new |-> new, branch |-> branch]

\* The transform closure, lines 444-459: the outcome for the node at pos.
Proven(nodes, pos, r) ==
    IF r.kind = "Panic" THEN Panic
    ELSE IF r.kind = "Some"
         THEN Outcome([nodes EXCEPT ![pos].inner = <<>>, ![pos].data = r.val], <<>>, "known")
         ELSE Outcome(nodes, <<>>, "known")

Discovered(nodes, pos, r) ==
    IF r.kind = "Panic" THEN Panic
    ELSE IF r.kind = "Some"
         THEN Outcome([nodes EXCEPT ![pos].inner = <<>>, ![pos].data = r.val.action],
                      <<<<r.val.addr, r.val.tokens>>>>, "new")
         ELSE Outcome(nodes, <<>>, "new")

\* The transform closure without the lookup of the node's address.
call_closureAlwaysNew(cache, nodes, pos) ==
    Discovered(nodes, pos, try_clasify_exchange(nodes, pos))

call_closure(cache, nodes, pos) ==
    IF nodes[pos].address \in DOMAIN cache
    THEN Proven(nodes, pos, prove_dyn_action(nodes, pos, cache[nodes[pos].address][1],
                                             cache[nodes[pos].address][2]))
    ELSE Discovered(nodes, pos, try_clasify_exchange(nodes, pos))

(***************************************************************************)
(* TimeTree::dyn_classify (tree.rs, not among the sources): every node of  *)
(* every Root that is still in the tree and that the selection closure     *)
(* accepts is handed to the transform closure, parents before children;    *)
(* the pairs the closure returns are collected in order.                   *)
(***************************************************************************)
\* st is Panic or [kind |-> "Ok", nodes, new, branches].
Visited(st, pos, r) ==
    IF r.kind = "Panic" THEN Panic
    ELSE [kind |-> "Ok", nodes |-> r.nodes, new |-> st.new \o r.new,
          branches |-> Append(st.branches, [address |-> st.nodes[pos].address,
                                            index   |-> st.nodes[pos].index,
                                            branch  |-> r.branch])]

DynNode(cache, st, pos) ==
    IF st.kind = "Panic" THEN Panic
    ELSE IF pos \notin Subtree(st.nodes, 1) THEN st
    ELSE IF ~find_closure(cache, st.nodes[pos].address, get_all_sub_actions(st.nodes, pos)) THEN st
    ELSE Visited(st, pos, call_closure(cache, st.nodes, pos))

RECURSIVE DynRoot(_, _, _)
DynRoot(cache, st, pos) ==
    IF st.kind = "Panic" THEN Panic
    ELSE IF pos > Len(st.nodes) THEN st
    ELSE DynRoot(cache, DynNode(cache, st, pos), pos + 1)

\* acc is Panic or [kind |-> "Ok", roots, new, branches].
Collected(acc, root, r) ==
    IF acc.kind = "Panic" \/ r.kind = "Panic" THEN Panic
    ELSE [kind |-> "Ok", roots |-> Append(acc.roots, [root EXCEPT !.nodes = r.nodes]),
          new |-> acc.new \o r.new, branches |-> Append(acc.branches, r.branches)]

RECURSIVE DynRoots(_, _, _)
DynRoots(cache, roots, acc) ==
    IF roots = <<>> THEN acc
    ELSE DynRoots(cache, Tail(roots),
             Collected(acc, Head(roots),
                 DynRoot(cache, [kind |-> "Ok", nodes |-> Head(roots).nodes, new |-> <<>>, branches |-> <<>>], 1)))

dyn_classify(cache, roots) ==
    DynRoots(cache, roots, [kind |-> "Ok", roots |-> <<>>, new |-> <<>>, branches |-> <<>>])

(***************************************************************************)
(* Deduplication: the closures of build_tree and                           *)
(* TimeTree::remove_duplicate_data (tree.rs, not among the sources).       *)
(***************************************************************************)
\* The nodes of a Root that are in its tree and not removed.
Alive(nodes) == {p \in Subtree(nodes, 1) : ~nodes[p].removed}

\* The swap closure returning the first matching transfer alone.
swap_duplicatesFirstOnly(data, other_nodes) ==
    {i \in {o[1] : o \in {x \in other_nodes : x[2].kind = "Transfer"
                                                /\ x[2].amount = data.amount_in
                                                /\ x[2].token = data.token_in}} :
         \A o \in other_nodes :
             (o[2].kind = "Transfer" /\ o[2].amount = data.amount_in /\ o[2].token = data.token_in)
                 => i <= o[1]}

\* The swap closure comparing the token alone.
swap_duplicatesAnyAmount(data, other_nodes) ==
    {o[1] : o \in {x \in other_nodes : x[2].kind = "Transfer" /\ x[2].token = data.token_in}}

\* Lines 110-124: the indexes of the transfers a swap subsumes; other_nodes
\* holds (index, data) pairs.
swap_duplicates(data, other_nodes) ==
    {o[1] : o \in {x \in other_nodes : x[2].kind = "Transfer"
                                        /\ x[2].amount = data.amount_in
                                        /\ x[2].token = data.token_in}}

\* Lines 131-145: the indexes of the transfers a mint subsumes.
mint_duplicates(data, other_nodes) ==
    {o[1] : o \in {x \in other_nodes : x[2].kind = "Transfer"
                     /\ \E i \in 1..Len(data.amount) :
                            i <= Len(data.token) /\ x[2].amount = data.amount[i] /\ x[2].token = data.token[i]}}

\* The classify closure of the pass for primary actions of the given kind.
duplicates(kind, data, other_nodes) ==
    IF kind = "Swap" THEN swap_duplicates(data, other_nodes) ELSE mint_duplicates(data, other_nodes)

\* Every node the primary actions of the same Root subsume is removed from the Root.
Subsumed(nodes, kind) ==
    UNION {duplicates(kind, nodes[p].data, {<<nodes[q].index, nodes[q].data>> : q \in Alive(nodes) \ {p}})
           : p \in {q \in Alive(nodes) : nodes[q].data.kind = kind}}

Removed(nodes, gone) ==
    [p \in 1..Len(nodes) |-> IF nodes[p].index \in gone THEN [nodes[p] EXCEPT !.removed = TRUE] ELSE nodes[p]]

remove_duplicate_data(root, kind) ==
    [root EXCEPT !.nodes = Removed(@, Subsumed(@, kind))]

(***************************************************************************)
(* build_tree, lines 40-95: the Root of one transaction.                   *)
(***************************************************************************)
\* get_coinbase_transfer, lines 154-164.
get_coinbase_transfer(builder, trace) ==
    IF trace.is_call /\ trace.to = builder THEN Some(trace.value) ELSE None

\* The loop of lines 74-91 over the records after the first.
RECURSIVE InsertRest(_, _, _, _)
\* The loop body giving the node the trace address of the head.
InsertedAtHeadPath(root, recs, index, header, classification) ==
    IF classification.kind = "Panic" THEN Panic
    ELSE InsertRest(
             RootInsert([root EXCEPT !.gas_details.coinbase_transfer =
                                         get_coinbase_transfer(header.beneficiary, Head(recs))],
                        Node(index + 1, get_from_addr(Head(recs)), classification, root.nodes[1].trace_address)),
             Tail(recs), index + 1, header)

\* The loop body giving the node the index of the record before it.
InsertedAtIndex(root, recs, index, header, classification) ==
    IF classification.kind = "Panic" THEN Panic
    ELSE InsertRest(
             RootInsert([root EXCEPT !.gas_details.coinbase_transfer =
                                         get_coinbase_transfer(header.beneficiary, Head(recs))],
                        Node(index, get_from_addr(Head(recs)), classification, Head(recs).trace_address)),
             Tail(recs), index + 1, header)

Inserted(root, recs, index, header, classification) ==
    IF classification.kind = "Panic" THEN Panic
    ELSE InsertRest(
             RootInsert([root EXCEPT !.gas_details.coinbase_transfer =
                                         get_coinbase_transfer(header.beneficiary, Head(recs))],
                        Node(index + 1, get_from_addr(Head(recs)), classification, Head(recs).trace_address)),
             Tail(recs), index + 1, header)

InsertRest(root, recs, index, header) ==
    IF recs = <<>> THEN Some(root)
    ELSE Inserted(root, recs, index, header, classify_node(Head(recs), index + 1))

\* Lines 47-72: the head node and the Root.
Headed(trace, header, classification) ==
    IF classification.kind = "Panic" THEN Panic
    ELSE IF header.base_fee_per_gas.kind = "None" THEN Panic
    ELSE InsertRest(
             [nodes   |-> <<Node(0, get_from_addr(trace.trace[1]), classification, trace.trace[1].trace_address)>>,
              tx_hash |-> trace.tx_hash,
              private |-> FALSE,
              gas_details |-> [coinbase_transfer   |-> None,
                               gas_used            |-> trace.gas_used,
                               effective_gas_price |-> trace.effective_price,
                               priority_fee        |-> trace.effective_price - header.base_fee_per_gas.val]],
             Tail(trace.trace), 0, header)

build_root(trace, header) ==
    IF trace.trace = <<>> THEN None
    ELSE Headed(trace, header, classify_node(trace.trace[1], 0))

(***************************************************************************)
(* Inputs: logs, trace records, transactions, blocks.                      *)
(***************************************************************************)
Log(address, topics, data) == [address |-> address, topics |-> topics, data |-> data]
\* The canonical Transfer event of a token: indexed addresses left-padded.
CanonicalTransfer(token, from, to, amount) ==
    Log(token, <<TRANSFER_TOPIC, LeftPad(from), LeftPad(to)>>, BeEncode(amount))
\* A Transfer-topic log whose addresses sit in the first 20 bytes of the topics.
HighTransfer(token, from, to, amount) ==
    Log(token, <<TRANSFER_TOPIC, RightPad(from), RightPad(to)>>, BeEncode(amount))
ApprovalLog(token) ==
    Log(token, <<APPROVAL_TOPIC, LeftPad(UserAddr), LeftPad(PoolAddr)>>, BeEncode(1))

Record(from, to, calldata, logs, trace_address) ==
    [from |-> from, to |-> to, is_call |-> TRUE, value |-> 0, calldata |-> calldata,
     logs |-> logs, trace_address |-> trace_address]

SwapCall(amount_in) == SwapSelector \o <<2, 3, amount_in, 1>>

Tx(trace) == [tx_hash |-> 0, trace |-> trace, gas_used |-> 21, effective_price |-> 3]

TxEmpty == Tx(<<>>)
\* A statically decoded swap of token A and, below it, two transfers of
\* token A of the amount 1 and one of the amount 2.
TxStaticSwap(amount_in) ==
    Tx(<<Record(UserAddr, StaticAddr, SwapCall(amount_in), <<>>, <<>>),
         Record(TokenA, UserAddr, <<>>, <<HighTransfer(TokenA, UserAddr, StaticAddr, 1)>>, <<0>>),
         Record(TokenA, UserAddr, <<>>, <<HighTransfer(TokenA, UserAddr, StaticAddr, 1)>>, <<1>>),
         Record(TokenA, UserAddr, <<>>, <<HighTransfer(TokenA, UserAddr, StaticAddr, 2)>>, <<2>>)>>)
\* A call to a static protocol whose calldata the bindings do not decode.
TxStaticBad(calldata) ==
    Tx(<<Record(UserAddr, StaticAddr, calldata, <<>>, <<>>)>>)
\* A pool below the head with one transfer of token A out of it in its
\* subtree, and a plain transfer of the same token and amount beside it.
TxOneTransfer ==
    Tx(<<Record(UserAddr, PoolAddr, <<>>, <<>>, <<>>),
         Record(PoolAddr, TokenA, <<>>, <<>>, <<0>>),
         Record(TokenA, UserAddr, <<>>, <<HighTransfer(TokenA, PoolAddr, UserAddr, 1), ApprovalLog(TokenA)>>, <<0, 0>>),
         Record(TokenA, UserAddr, <<>>, <<HighTransfer(TokenA, PoolAddr, UserAddr, 1)>>, <<1>>)>>)
\* A statically decoded swap made by the pool, with one transfer out of the pool below it.
TxClassifiedPool ==
    Tx(<<Record(PoolAddr, StaticAddr, SwapCall(2), <<>>, <<>>),
         Record(TokenA, UserAddr, <<>>, <<HighTransfer(TokenA, PoolAddr, UserAddr, 1), ApprovalLog(TokenA)>>, <<0>>)>>)
\* A pool with a transfer in and a transfer out in the logs of its subtree.
TxTwoTransfers ==
    Tx(<<Record(PoolAddr, UserAddr, <<>>, <<>>, <<>>),
         Record(TokenA, PoolAddr, <<>>, <<HighTransfer(TokenA, UserAddr, PoolAddr, 1), ApprovalLog(TokenA)>>, <<0>>),
         Record(TokenB, PoolAddr, <<>>, <<HighTransfer(TokenB, PoolAddr, UserAddr, 2), ApprovalLog(TokenB)>>, <<1>>)>>)
\* A pool whose subtree holds Transfer actions in and out of it, and no logs.
TxPossible ==
    Tx(<<Record(PoolAddr, UserAddr, <<>>, <<>>, <<>>),
         Record(TokenA, PoolAddr, <<>>, <<HighTransfer(TokenA, UserAddr, PoolAddr, 1)>>, <<0>>),
         Record(TokenB, PoolAddr, <<>>, <<HighTransfer(TokenB, PoolAddr, UserAddr, 1)>>, <<1>>)>>)
\* The same with the two transfers also in the logs of an Unclassified node.
TxExchange ==
    Tx(<<Record(PoolAddr, UserAddr, <<>>, <<>>, <<>>),
         Record(TokenA, PoolAddr, <<>>, <<HighTransfer(TokenA, UserAddr, PoolAddr, 1)>>, <<0>>),
         Record(TokenB, PoolAddr, <<>>, <<HighTransfer(TokenB, PoolAddr, UserAddr, 1)>>, <<1>>),
         Record(TokenA, PoolAddr, <<>>, <<HighTransfer(TokenA, UserAddr, PoolAddr, 1), ApprovalLog(TokenA)>>, <<2>>),
         Record(TokenB, PoolAddr, <<>>, <<HighTransfer(TokenB, PoolAddr, UserAddr, 2), ApprovalLog(TokenB)>>, <<3>>)>>)
\* A canonical transfer and a tip to the block's beneficiary.
TxCanonical ==
    Tx(<<Record(TokenA, UserAddr, <<>>, <<CanonicalTransfer(TokenA, UserAddr, PoolAddr, 1)>>, <<>>),
         [Record(UserAddr, BuilderAddr, <<>>, <<>>, <<0>>) EXCEPT !.value = 5]>>)

TxPool ==
    {TxEmpty, TxStaticSwap(1), TxStaticBad(<<>>), TxOneTransfer, TxClassifiedPool,
     TxTwoTransfers, TxPossible, TxExchange, TxCanonical}

\* A block's transactions, numbered by their position.
Blocks ==
    UNION {{[i \in 1..n |-> [b[i] EXCEPT !.tx_hash = i]] : b \in [1..n -> TxPool]} : n \in 0..MaxTxs}

Headers ==
    {[beneficiary |-> BuilderAddr, base_fee_per_gas |-> f] : f \in {None, Some(1)}}

EmptyCache == <<>>
\* Classifier::new() gives the empty map; known_dyn_protocols is a public
\* field, so the owner of a Classifier may also have filled it.
InitialCaches == {EmptyCache, (PoolAddr :> <<TokenA, TokenB>>)}

Threads == {1, 2}
Classifiers == {1, 2}

VARIABLES
    traces,     \* the block handed to build_tree
    header,     \* its header
    known,      \* known_dyn_protocols of each Classifier
    readers,    \* the threads holding the read lock of each Classifier
    writer,     \* the thread holding the write lock of each Classifier, or 0
    inst,       \* the Classifier each build_tree call runs on
    pc,         \* where each build_tree call is
    tree,       \* each call's TimeTree
    newc,       \* each call's new_classifed_exchanges
    branches,   \* per Root, the nodes the transform closure was called on and its branch
    op, arg, ret \* a single call of classify_node or decode_transfer

vars == <<traces, header, known, readers, writer, inst, pc, tree, newc, branches, op, arg, ret>>

EmptyTree == [roots |-> <<>>, finalized |-> FALSE]

Init ==
    /\ traces \in Blocks
    /\ header \in Headers
    /\ \E seed \in InitialCaches : known = [c \in Classifiers |-> IF c = 1 THEN seed ELSE EmptyCache]
    /\ readers = [c \in Classifiers |-> {}]
    /\ writer = [c \in Classifiers |-> 0]
    /\ \E c \in Classifiers : inst = [t \in Threads |-> IF t = 1 THEN 1 ELSE c]
    /\ pc = [t \in Threads |-> "build"]
    /\ tree = [t \in Threads |-> EmptyTree]
    /\ newc = [t \in Threads |-> <<>>]
    /\ branches = [t \in Threads |-> <<>>]
    /\ op = "none" /\ arg = None /\ ret = None


(***************************************************************************)
(* build_tree, one call per thread: the Roots in input order (lines 40-95; *)
(* the closures of the parallel map share no state), the TimeTree (lines   *)
(* 97-102), the inference pass (line 104, try_classify_unknown_exchanges,  *)
(* lines 425-470), the two deduplications (lines 107-147), finalize_tree   *)
(* (line 149).                                                             *)
(***************************************************************************)
PassOrderMintsFirst ==
    <<"build", "read", "classify", "drop", "write", "dedup_mint", "dedup_swap", "finalize", "done">>

PassOrder ==
    <<"build", "read", "classify", "drop", "write", "dedup_swap", "dedup_mint", "finalize", "done">>

\* The step of build_tree after step p.
After(p) == PassOrder[1 + CHOOSE i \in 1..Len(PassOrder) : PassOrder[i] = p]

Goto(t, p) == pc' = [pc EXCEPT ![t] = p]

\* HashMap::insert for each pair, in order: a later pair replaces an earlier one.
RECURSIVE InsertAll(_, _)
InsertAll(cache, pairs) ==
    IF pairs = <<>> THEN cache
    ELSE InsertAll((Head(pairs)[1] :> Head(pairs)[2]) @@ cache, Tail(pairs))

\* Lines 40-95: the filter_map over the transactions and its collect. A panic
\* in one closure of the parallel map is the panic of build_tree.
RECURSIVE CollectRoots(_, _, _)
\* The collect that ends at the first transaction without a Root.
PushRootUntilEmpty(txs, hdr, acc, r) ==
    IF r.kind = "Panic" THEN Panic
    ELSE IF r.kind = "None" THEN Some(acc)
    ELSE CollectRoots(Tail(txs), hdr, Append(acc, r.val))

PushRoot(txs, hdr, acc, r) ==
    IF r.kind = "Panic" THEN Panic
    ELSE CollectRoots(Tail(txs), hdr, IF r.kind = "None" THEN acc ELSE Append(acc, r.val))

CollectRoots(txs, hdr, acc) ==
    IF txs = <<>> THEN Some(acc)
    ELSE PushRoot(txs, hdr, acc, build_root(Head(txs), hdr))

BuiltRoots(t, r) ==
    IF r.kind = "Panic"
    THEN Goto(t, "panicked") /\ UNCHANGED tree
    ELSE Goto(t, After("build")) /\ tree' = [tree EXCEPT ![t].roots = r.val]

\* Lines 40-102: the Roots and the TimeTree that holds them.
BuildRoots(t) ==
    /\ pc[t] = "build"
    /\ BuiltRoots(t, CollectRoots(traces, header, <<>>))
    /\ UNCHANGED <<traces, header, known, readers, writer, inst, newc, branches, op, arg, ret>>

\* Line 427: known_dyn_protocols.read().
AcquireRead(t) ==
    /\ pc[t] = "read"
    /\ writer[inst[t]] = 0
    /\ readers' = [readers EXCEPT ![inst[t]] = @ \cup {t}]
    /\ Goto(t, After("read"))
    /\ UNCHANGED <<traces, header, known, writer, inst, tree, newc, branches, op, arg, ret>>

\* Lines 429-460: tree.dyn_classify with the two closures. A panic unwinds
\* through the read guard, which releases the lock.
DynClassified(t, r) ==
    IF r.kind = "Panic"
    THEN /\ Goto(t, "panicked")
         /\ readers' = [readers EXCEPT ![inst[t]] = @ \ {t}]
         /\ UNCHANGED <<tree, newc, branches>>
    ELSE /\ Goto(t, After("classify"))
         /\ tree' = [tree EXCEPT ![t].roots = r.roots]
         /\ newc' = [newc EXCEPT ![t] = r.new]
         /\ branches' = [branches EXCEPT ![t] = r.branches]
         /\ UNCHANGED readers

DynClassify(t) ==
    /\ pc[t] = "classify"
    /\ DynClassified(t, dyn_classify(known[inst[t]], tree[t].roots))
    /\ UNCHANGED <<traces, header, known, writer, inst, op, arg, ret>>

\* The pass without the drop of the read guard.
DropReadKept(t) ==
    /\ pc[t] = "drop"
    /\ Goto(t, After("drop"))
    /\ UNCHANGED <<traces, header, known, readers, writer, inst, tree, newc, branches, op, arg, ret>>

\* Line 462: drop(known_dyn_protocols_read).
DropRead(t) ==
    /\ pc[t] = "drop"
    /\ readers' = [readers EXCEPT ![inst[t]] = @ \ {t}]
    /\ Goto(t, After("drop"))
    /\ UNCHANGED <<traces, header, known, writer, inst, tree, newc, branches, op, arg, ret>>

\* A write phase that keeps only the pass's own pairs in the map.
WritePhaseReplacing(t) ==
    /\ pc[t] = "write"
    /\ writer[inst[t]] = 0
    /\ readers[inst[t]] = {}
    /\ known' = [known EXCEPT ![inst[t]] = InsertAll(EmptyCache, newc[t])]
    /\ Goto(t, After("write"))
    /\ UNCHANGED <<traces, header, readers, writer, inst, tree, newc, branches, op, arg, ret>>

\* Lines 464-469: with new pairs, the write lock is taken, the pairs are
\* inserted and the guard is dropped at the end of the block.
WritePhase(t) ==
    /\ pc[t] = "write"
    /\ IF newc[t] = <<>>
       THEN UNCHANGED known
       ELSE /\ writer[inst[t]] = 0
            /\ readers[inst[t]] = {}
            /\ known' = [known EXCEPT ![inst[t]] = InsertAll(@, newc[t])]
    /\ Goto(t, After("write"))
    /\ UNCHANGED <<traces, header, readers, writer, inst, tree, newc, branches, op, arg, ret>>

\* The deduplication of every Root of the tree.
DedupRoots(tr, kind) ==
    [tr EXCEPT !.roots = [i \in 1..Len(tr.roots) |-> remove_duplicate_data(tr.roots[i], kind)]]

\* Lines 107-126.
DedupSwaps(t) ==
    /\ pc[t] = "dedup_swap"
    /\ tree' = [tree EXCEPT ![t] = DedupRoots(@, "Swap")]
    /\ Goto(t, After("dedup_swap"))
    /\ UNCHANGED <<traces, header, known, readers, writer, inst, newc, branches, op, arg, ret>>

\* Lines 128-147.
DedupMints(t) ==
    /\ pc[t] = "dedup_mint"
    /\ tree' = [tree EXCEPT ![t] = DedupRoots(@, "Mint")]
    /\ Goto(t, After("dedup_mint"))
    /\ UNCHANGED <<traces, header, known, readers, writer, inst, newc, branches, op, arg, ret>>

\* Lines 149-151: tree.finalize_tree() and the return of the tree.
FinalizeTree(t) ==
    /\ pc[t] = "finalize"
    /\ tree' = [tree EXCEPT ![t].finalized = TRUE]
    /\ Goto(t, After("finalize"))
    /\ UNCHANGED <<traces, header, known, readers, writer, inst, newc, branches, op, arg, ret>>

Next ==
    \E t \in Threads :
        \/ BuildRoots(t)
        \/ AcquireRead(t)
        \/ DynClassify(t)
        \/ DropRead(t)
        \/ WritePhase(t)
        \/ DedupSwaps(t)
        \/ DedupMints(t)
        \/ FinalizeTree(t)

Spec == Init /\ [][Next]_vars


(***************************************************************************)
(* Single calls of classify_node and decode_transfer on bounded inputs.    *)
(***************************************************************************)
\* A data field of 33 bytes: its value does not fit 32 bytes, or it does.
Overflow33 == <<1>> \o BeEncode(1)
Padded33 == <<0>> \o BeEncode(1)

TopicLists ==
    {<<>>, <<TRANSFER_TOPIC>>,
     <<TRANSFER_TOPIC, LeftPad(UserAddr), LeftPad(PoolAddr)>>,
     <<TRANSFER_TOPIC, RightPad(UserAddr), RightPad(PoolAddr)>>,
     <<APPROVAL_TOPIC, LeftPad(UserAddr), LeftPad(PoolAddr)>>}

\* The logs decode_transfer is called on.
LogInputs ==
    {Log(e, t, d) : e \in {TokenA, TokenB}, t \in TopicLists,
                    d \in {BeEncode(a) : a \in 1..MaxAmount} \cup {Overflow33, Padded33}}

\* The logs of the records classify_node is called on.
RecordLogs ==
    {Log(e, t, BeEncode(1)) : e \in {TokenA, TokenB}, t \in TopicLists}
    \cup {Log(TokenA, <<TRANSFER_TOPIC, LeftPad(UserAddr), LeftPad(PoolAddr)>>, Overflow33)}

LogLists == UNION {[1..n -> RecordLogs] : n \in 0..MaxLogs}

Calldatas == {<<>>, <<18>>, UnknownSelector, FeeSelector, SwapSelector, SwapCall(1)}

\* Records sent by token A: to a plain address with any log list, to the
\* static protocols with any calldata.
RecordInputs ==
    {Record(TokenA, UserAddr, <<>>, logs, <<>>) : logs \in LogLists}
    \cup {Record(TokenA, to, calldata, logs, <<>>) :
              to \in {StaticAddr, StaticNoClassifier}, calldata \in Calldatas,
              logs \in {<<>>, <<HighTransfer(TokenA, UserAddr, PoolAddr, 1)>>}}

FnInputs ==
    {[fn |-> "decode_transfer", log |-> l] : l \in LogInputs}
    \cup {[fn |-> "classify_node", trace |-> r, index |-> i] : r \in RecordInputs, i \in 0..1}

InitFn ==
    /\ traces = <<>>
    /\ header = [beneficiary |-> BuilderAddr, base_fee_per_gas |-> Some(1)]
    /\ known = [c \in Classifiers |-> EmptyCache]
    /\ readers = [c \in Classifiers |-> {}]
    /\ writer = [c \in Classifiers |-> 0]
    /\ inst = [t \in Threads |-> 1]
    /\ pc = [t \in Threads |-> "idle"]
    /\ tree = [t \in Threads |-> EmptyTree]
    /\ newc = [t \in Threads |-> <<>>]
    /\ branches = [t \in Threads |-> <<>>]
    /\ op = "none" /\ arg \in FnInputs /\ ret = None

CallClassifyNode ==
    /\ op = "none"
    /\ arg.fn = "classify_node"
    /\ ret' = classify_node(arg.trace, arg.index)
    /\ op' = "returned"
    /\ UNCHANGED <<traces, header, known, readers, writer, inst, pc, tree, newc, branches, arg>>

CallDecodeTransfer ==
    /\ op = "none"
    /\ arg.fn = "decode_transfer"
    /\ ret' = decode_transfer(arg.log)
    /\ op' = "returned"
    /\ UNCHANGED <<traces, header, known, readers, writer, inst, pc, tree, newc, branches, arg>>

NextFn == CallClassifyNode \/ CallDecodeTransfer

SpecFn == InitFn /\ [][NextFn]_vars


(***************************************************************************)
(* Properties of classify_node and decode_transfer (SpecFn).               *)
(***************************************************************************)
ReturnedFrom(fn) == op = "returned" /\ arg.fn = fn

ActionKinds == {"Swap", "Mint", "Burn", "Transfer", "Unclassified"}

HasTransferTopic(log) == Len(log.topics) >= 1 /\ log.topics[1] = TRANSFER_TOPIC

\* The data field's value fits 32 bytes.
FitsWord(data) == \A i \in 1..(Len(data) - WordLen) : data[i] = 0

WellFormedTransfer(log) == HasTransferTopic(log) /\ Len(log.topics) >= 3 /\ FitsWord(log.data)

EmittedByCaller(trace) == SelectSeq(trace.logs, LAMBDA log : log.address = trace.from)

HasStaticDecoder(trace) ==
    trace.to \in DOMAIN PROTOCOL_ADDRESS_MAPPING /\ PROTOCOL_ADDRESS_MAPPING[trace.to]

\* The inputs claim C6 lists as malformed.
Malformed(trace) ==
    \/ HasStaticDecoder(trace) /\ (Len(trace.calldata) < SigLen \/ try_decode(trace.calldata) = None)
    \/ \E i \in DOMAIN trace.logs :
           /\ trace.logs[i].address = trace.from
           /\ HasTransferTopic(trace.logs[i])
           /\ (Len(trace.logs[i].topics) < 3 \/ Len(trace.logs[i].data) > WordLen)

\* C6: classify_node returns an Action for every record and never fails; a
\* record with calldata its static decoder cannot take, or with a
\* caller-emitted Transfer-topic log of fewer than three topics or more
\* than 32 data bytes, becomes Unclassified.
C6_NeverFails ==
    ReturnedFrom("classify_node") =>
        /\ ret.kind \in ActionKinds
        /\ Malformed(arg.trace) => ret.kind = "Unclassified"

\* The number of caller-emitted logs with the Transfer topic0.
CallerTransferCount(trace) ==
    Cardinality({i \in DOMAIN trace.logs :
                     trace.logs[i].address = trace.from /\ HasTransferTopic(trace.logs[i])})

TransferOf(index, log) ==
    [kind |-> "Transfer", index |-> index, token |-> log.address,
     from |-> SubSeq(log.topics[2], 1, AddrLen), to |-> SubSeq(log.topics[3], 1, AddrLen),
     amount |-> BeValue(log.data)]

SoleCallerLogIs(trace, P(_)) ==
    Len(EmittedByCaller(trace)) = 1 /\ P(EmittedByCaller(trace)[1])

C9_ResidualLogs ==
    (ReturnedFrom("classify_node") /\ ret.kind = "Unclassified") =>
        /\ ret.trace = arg.trace
        /\ ret.logs = SelectSeq(arg.trace.logs,
                                LAMBDA log : ~(log.address = arg.trace.from /\ HasTransferTopic(log)))

\* C9 amended: the logs of an Unclassified action are exactly the record's
\* logs emitted by the caller address, in order, and the action carries the
\* raw record.
C9_CallerLogs ==
    (ReturnedFrom("classify_node") /\ ret.kind = "Unclassified") =>
        /\ ret.trace = arg.trace
        /\ ret.logs = EmittedByCaller(arg.trace)

\* An Unclassified action that carries some but not all logs of its record.
C9_Witness ==
    /\ ReturnedFrom("classify_node")
    /\ ret.kind = "Unclassified"
    /\ ret.logs # <<>>
    /\ ret.logs # arg.trace.logs

\* C10: a log with the Transfer topic0, from and to left-padded to 32 bytes
\* in topics 1 and 2 and the big-endian amount as data decodes to that from, to
\* and amount, with the emitter as token; a log with another topic0 decodes to
\* nothing.
C10_RoundTrip ==
    ReturnedFrom("decode_transfer") =>
        /\ \A f, t \in {UserAddr, PoolAddr}, a \in 1..MaxAmount :
               (arg.log.topics = <<TRANSFER_TOPIC, LeftPad(f), LeftPad(t)>> /\ arg.log.data = BeEncode(a))
                   => ret = Some([token |-> arg.log.address, from |-> f, to |-> t, value |-> a])
        /\ (Len(arg.log.topics) >= 1 /\ arg.log.topics[1] # TRANSFER_TOPIC) => ret = None


(***************************************************************************)
(* Properties of build_tree (Spec).                                        *)
(***************************************************************************)
\* The pass a position of build_tree belongs to: Roots, inference, swap
\* deduplication, mint deduplication, finalize_tree, return.
PassOf(p) ==
    CASE p = "build" -> 1
      [] p \in {"read", "classify", "drop", "write"} -> 2
      [] p = "dedup_swap" -> 3
      [] p = "dedup_mint" -> 4
      [] p = "finalize" -> 5
      [] p = "done" -> 6
      [] OTHER -> 0

\* The pass whose step changes the tree's contents at position p.
Mutating(p) == p \in {"build", "classify", "dedup_swap", "dedup_mint", "finalize"}

\* C1: every call of build_tree goes through the passes in the one order
\* Roots, inference, swap deduplication, mint deduplication, finalize_tree,
\* each begun when the one before it has ended, and the tree does not change
\* once it is finalized.
C1_FixedPassOrder ==
    [][\A t \in Threads :
           /\ (pc'[t] # pc[t] /\ pc'[t] # "panicked") => PassOf(pc'[t]) \in {PassOf(pc[t]), PassOf(pc[t]) + 1}
           /\ tree'[t] # tree[t] => Mutating(pc[t])
           /\ tree'[t].finalized # tree[t].finalized => (pc[t] = "finalize" /\ pc'[t] = "done")
           /\ tree[t].finalized => tree'[t] = tree[t]]_vars

AllNodes(tr) == {<<i, j>> \in (DOMAIN tr.roots) \X (1..8) : j \in DOMAIN tr.roots[i].nodes}

\* A finished call whose tree holds a Mint of the inference pass and a node
\* removed by a deduplication.
C1_Witness ==
    /\ pc[1] = "done"
    /\ tree[1].finalized
    /\ \E n \in AllNodes(tree[1]) : tree[1].roots[n[1]].nodes[n[2]].data.kind = "Mint"
    /\ \E n \in AllNodes(tree[1]) : tree[1].roots[n[1]].nodes[n[2]].removed

ClosureCalls(t) == {<<i, k>> \in (DOMAIN branches[t]) \X (1..8) : k \in DOMAIN branches[t][i]}

\* C3: a pass that holds the read lock has handled every node whose address
\* is in known_dyn_protocols through the known-protocol branch, and only
\* those.
C3_KnownBranch ==
    \A t \in Threads :
        pc[t] = "drop" =>
            \A c \in ClosureCalls(t) :
                branches[t][c[1]][c[2]].branch =
                    IF branches[t][c[1]][c[2]].address \in DOMAIN known[inst[t]] THEN "known" ELSE "new"

\* Both threads have passed the same Classifier's inference together, and a
\* node of a cached address was handled.
C3_Witness ==
    /\ inst[2] = 1
    /\ pc[1] = "drop" /\ pc[2] = "drop"
    /\ \E c \in ClosureCalls(2) : branches[2][c[1]][c[2]].address \in DOMAIN known[1]

Finished(t) == pc[t] \in {"done", "panicked"}

\* C5: two calls of build_tree on the same traces and header, on one
\* Classifier or on two whose caches were equal, end alike: both panic or
\* both return the same tree.
C5_SameTree ==
    (Finished(1) /\ Finished(2) /\ (inst[1] = inst[2] \/ known[inst[1]] = known[inst[2]])) =>
        /\ pc[1] = pc[2]
        /\ pc[1] = "done" => tree[1] = tree[2]

\* Two finished calls on one Classifier whose inference handled a node.
C5_Witness ==
    /\ inst[2] = 1
    /\ pc[1] = "done" /\ pc[2] = "done"
    /\ ClosureCalls(1) # {}

\* The tx_hash of the transactions with a non-empty trace list, in order.
RECURSIVE NonEmptyHashes(_)
NonEmptyHashes(txs) ==
    IF txs = <<>> THEN <<>>
    ELSE IF Head(txs).trace = <<>> THEN NonEmptyHashes(Tail(txs))
    ELSE <<Head(txs).tx_hash>> \o NonEmptyHashes(Tail(txs))

RootHashes(tr) == [i \in DOMAIN tr.roots |-> tr.roots[i].tx_hash]

WithoutEmpty(txs) == SelectSeq(txs, LAMBDA tx : tx.trace # <<>>)

ExchangePair(kept, addr) ==
    /\ kept.kind = "Some"
    /\ Len(kept.val) = 2
    /\ \E i \in 1..2 : kept.val[i].from = addr /\ kept.val[3 - i].to = addr
    /\ kept.val[1].token # kept.val[2].token
    /\ kept.val[1].from # kept.val[2].from

\* The node at pos is one the pass takes for a new exchange: it is in the
\* tree, its address is not cached, the selection closure accepts it and the
\* logs of its subtree hold an exchange pair.
NewExchangeAt(cache, nodes, pos) ==
    /\ pos \in Subtree(nodes, 1)
    /\ nodes[pos].address \notin DOMAIN cache
    /\ find_closure(cache, nodes[pos].address, get_all_sub_actions(nodes, pos))
    /\ ExchangePair(KeptNew(DecodeAll(FlatLogs(get_all_sub_actions(nodes, pos))), nodes[pos].address),
                    nodes[pos].address)

\* The tokens of the two transfers of the node's exchange pair, in log order.
PairTokens(kept) == <<kept.val[1].token, kept.val[2].token>>

\* C16: a node the inference pass takes for a new exchange has, when the
\* pass ends, no children and a Swap as its action, and its address with the
\* tokens of its two transfers is registered; the write phase that follows
\* puts every registered pair in known_dyn_protocols, where later passes of
\* the Classifier read it.
C16_ExchangeRegistered ==
    [][\A t \in Threads :
           /\ (pc[t] = "classify" /\ pc'[t] # "classify") =>
                  \A n \in AllNodes(tree[t]) :
                      NewExchangeAt(known[inst[t]], tree[t].roots[n[1]].nodes, n[2]) =>
                          /\ pc'[t] = "drop"
                          /\ tree'[t].roots[n[1]].nodes[n[2]].inner = <<>>
                          /\ tree'[t].roots[n[1]].nodes[n[2]].data.kind = "Swap"
                          /\ \E k \in DOMAIN newc'[t] :
                                 /\ newc'[t][k][1] = tree[t].roots[n[1]].nodes[n[2]].address
                                 /\ newc'[t][k][2] =
                                        PairTokens(KeptNew(DecodeAll(FlatLogs(get_all_sub_actions(
                                                               tree[t].roots[n[1]].nodes, n[2]))),
                                                           tree[t].roots[n[1]].nodes[n[2]].address))
           /\ (pc[t] = "write" /\ pc'[t] # "write") =>
                  \A k \in DOMAIN newc[t] :
                      /\ newc[t][k][1] \in DOMAIN known'[inst[t]]
                      /\ \E j \in k..Len(newc[t]) :
                             newc[t][j] = <<newc[t][k][1], known'[inst[t]][newc[t][k][1]]>>]_vars


\* The primary action subsumes the transfer: a Swap by its token_in and
\* amount_in, a Mint by one of its token and amount pairs.
Subsumes(primary, transfer) ==
    \/ /\ primary.kind = "Swap"
       /\ primary.token_in = transfer.token
       /\ primary.amount_in = transfer.amount
    \/ /\ primary.kind = "Mint"
       /\ \E i \in (DOMAIN primary.token) \cap (DOMAIN primary.amount) :
              primary.token[i] = transfer.token /\ primary.amount[i] = transfer.amount

\* The node at pos is a Transfer that a Swap or a Mint of the same Root subsumes.
SubsumedTransfer(nodes, pos) ==
    /\ nodes[pos].data.kind = "Transfer"
    /\ \E q \in DOMAIN nodes : Subsumes(nodes[q].data, nodes[pos].data)

\* C18: after the swap and the mint deduplication, a node has been removed
\* if and only if it is a Transfer and its own transaction holds a Swap with
\* its token as token_in and its amount as amount_in, or a Mint with its
\* token and amount at one position; no Swap, Mint, Burn or Unclassified node
\* is removed, and nothing of another transaction counts.
C18_RemovedIffSubsumed ==
    \A t \in Threads :
        pc[t] \in {"finalize", "done"} =>
            \A n \in AllNodes(tree[t]) :
                tree[t].roots[n[1]].nodes[n[2]].removed <=> SubsumedTransfer(tree[t].roots[n[1]].nodes, n[2])

\* A deduplicated tree of two transactions: a Swap that took a Transfer out
\* of the first, and in the second a Transfer of the same token and amount
\* that stays.
C18_Witness ==
    /\ pc[1] = "done"
    /\ Len(tree[1].roots) = 2
    /\ \E p, q \in DOMAIN tree[1].roots[1].nodes, r \in DOMAIN tree[1].roots[2].nodes :
           /\ tree[1].roots[1].nodes[p].data.kind = "Swap"
           /\ tree[1].roots[1].nodes[q].removed
           /\ Subsumes(tree[1].roots[1].nodes[p].data, tree[1].roots[1].nodes[q].data)
           /\ tree[1].roots[2].nodes[r].data.kind = "Transfer"
           /\ Subsumes(tree[1].roots[1].nodes[p].data, tree[1].roots[2].nodes[r].data)
           /\ ~tree[1].roots[2].nodes[r].removed


\* C19: the swap and then the mint deduplication, run again on a tree they
\* have already been run on, remove nothing: the tree is the same after two
\* runs as after one.
C19_DedupIdempotent ==
    \A t \in Threads :
        pc[t] \in {"finalize", "done"} =>
            DedupRoots(DedupRoots(tree[t], "Swap"), "Mint") = tree[t]

\* A deduplicated tree with a Root that lost two nodes.
C19_Witness ==
    /\ pc[1] = "finalize"
    /\ \E n, m \in AllNodes(tree[1]) :
           /\ n[1] = m[1] /\ n[2] < m[2]
           /\ tree[1].roots[n[1]].nodes[n[2]].removed
           /\ tree[1].roots[m[1]].nodes[m[2]].removed

\* The node at arena position j of the Root was made from record j of the
\* trace list, the head from the first.
MadeFrom(node, record) ==
    /\ node.address = get_from_addr(record)
    /\ node.trace_address = record.trace_address

\* The nodes of a Root in insertion order against the trace list of its
\* transaction: positions counted from 0.
IndexedByPosition(nodes, trace) ==
    /\ Len(nodes) = Len(trace)
    /\ nodes[1].index = 0
    /\ \A j \in DOMAIN nodes : MadeFrom(nodes[j], trace[j]) /\ nodes[j].index = j - 1
    /\ \A j, k \in DOMAIN nodes : j < k => nodes[j].index < nodes[k].index

\* C20: in every Root the head has index 0, the node made from the record
\* at position i of the transaction's trace list has index i, the indexes
\* grow strictly in insertion order and no two nodes share one.
C20_IndexIsPosition ==
    \A t \in Threads :
        \A i \in DOMAIN tree[t].roots :
            IndexedByPosition(tree[t].roots[i].nodes, traces[tree[t].roots[i].tx_hash].trace)

\* A returned tree with a Root of four nodes or more.
C20_Witness ==
    /\ pc[1] = "done"
    /\ \E i \in DOMAIN tree[1].roots : Len(tree[1].roots[i].nodes) >= 4

(***************************************************************************)
(* Single calls of prove_dyn_action, try_clasify_exchange and the          *)
(* transform closure on the head of a Root whose subtree carries a bounded *)
(* list of transfer events.                                                *)
(***************************************************************************)
OtherAddr == Addr(8)

\* A transfer event, as decode_transfer returns it.
TransferEvent(token, from, to, value) == [token |-> token, from |-> from, to |-> to, value |-> value]

\* Transfers of the two tokens into and out of the pool, and one that does
\* not touch it; token A moves 1, token B moves 2. One transfer of a third
\* token into the pool.
TransferPool ==
    {TransferEvent(tk, d[1], d[2], IF tk = TokenA THEN 1 ELSE 2) :
         tk \in {TokenA, TokenB},
         d \in {<<UserAddr, PoolAddr>>, <<PoolAddr, UserAddr>>, <<OtherAddr, PoolAddr>>, <<UserAddr, OtherAddr>>}}
    \cup {TransferEvent(OtherAddr, UserAddr, PoolAddr, 1)}

TransferLists == UNION {[1..n -> TransferPool] : n \in 0..MaxTransfers}

\* The record under the pool's call that emits transfer x and an approval,
\* which classify_node leaves Unclassified with both logs.
EmittingRecord(x, i) ==
    Record(x.token, PoolAddr, <<>>, <<HighTransfer(x.token, x.from, x.to, x.value), ApprovalLog(x.token)>>, <<i - 1>>)

\* A transaction of the pool whose subtree carries the transfers ts, in order.
TxOfTransfers(ts) ==
    Tx(<<Record(PoolAddr, UserAddr, <<>>, <<>>, <<>>)>> \o [i \in 1..Len(ts) |-> EmittingRecord(ts[i], i)])

NodesOfTransfers(ts) ==
    build_root(TxOfTransfers(ts), [beneficiary |-> BuilderAddr, base_fee_per_gas |-> Some(1)]).val.nodes

InferInputs ==
    {[fn |-> f, transfers |-> ts, cache |-> EmptyCache] :
         f \in {"prove_dyn_action", "try_clasify_exchange"}, ts \in TransferLists}
    \cup {[fn |-> "closure", transfers |-> ts, cache |-> c] :
              ts \in TransferLists, c \in InitialCaches}

InitInfer ==
    /\ traces = <<>>
    /\ header = [beneficiary |-> BuilderAddr, base_fee_per_gas |-> Some(1)]
    /\ known = [c \in Classifiers |-> EmptyCache]
    /\ readers = [c \in Classifiers |-> {}]
    /\ writer = [c \in Classifiers |-> 0]
    /\ inst = [t \in Threads |-> 1]
    /\ pc = [t \in Threads |-> "idle"]
    /\ tree = [t \in Threads |-> EmptyTree]
    /\ newc = [t \in Threads |-> <<>>]
    /\ branches = [t \in Threads |-> <<>>]
    /\ op = "none" /\ arg \in InferInputs /\ ret = None

\* prove_dyn_action on the pool's node with the token pair (token A, token B).
CallProveDynAction ==
    /\ op = "none"
    /\ arg.fn = "prove_dyn_action"
    /\ ret' = prove_dyn_action(NodesOfTransfers(arg.transfers), 1, TokenA, TokenB)
    /\ op' = "returned"
    /\ UNCHANGED <<traces, header, known, readers, writer, inst, pc, tree, newc, branches, arg>>

CallTryClasifyExchange ==
    /\ op = "none"
    /\ arg.fn = "try_clasify_exchange"
    /\ ret' = try_clasify_exchange(NodesOfTransfers(arg.transfers), 1)
    /\ op' = "returned"
    /\ UNCHANGED <<traces, header, known, readers, writer, inst, pc, tree, newc, branches, arg>>

\* The transform closure of the inference pass on the pool's node.
CallClosure ==
    /\ op = "none"
    /\ arg.fn = "closure"
    /\ ret' = call_closure(arg.cache, NodesOfTransfers(arg.transfers), 1)
    /\ op' = "returned"
    /\ UNCHANGED <<traces, header, known, readers, writer, inst, pc, tree, newc, branches, arg>>

NextInfer == CallProveDynAction \/ CallTryClasifyExchange \/ CallClosure

SpecInfer == InitInfer /\ [][NextInfer]_vars


(***************************************************************************)
(* Properties of prove_dyn_action, try_clasify_exchange and the transform  *)
(* closure (SpecInfer).                                                    *)
(***************************************************************************)
Touches(x) == x.from = PoolAddr \/ x.to = PoolAddr

\* The transfers of the subtree that match the pool as a known protocol of
\* tokens A and B, and those that match it as a new exchange.
KnownMatching == SelectSeq(arg.transfers, LAMBDA x : x.token \in {TokenA, TokenB} /\ Touches(x))
NewMatching == SelectSeq(arg.transfers, Touches)

SameEnds(m) == Len(m) = 2 /\ m[1].from = m[2].from /\ m[1].to = m[2].to

\* C11: with exactly two matching transfers of the same from and the same
\* to, prove_dyn_action returns a Burn if that to is the node's address and a
\* Mint otherwise, carrying both tokens and both amounts.
C11_MintOrBurnOfTwo ==
    (ReturnedFrom("prove_dyn_action") /\ SameEnds(KnownMatching)) =>
        /\ ret.kind = "Some"
        /\ ret.val.kind = IF KnownMatching[1].to = PoolAddr THEN "Burn" ELSE "Mint"
        /\ ret.val.token = <<KnownMatching[1].token, KnownMatching[2].token>>
        /\ ret.val.amount = <<KnownMatching[1].value, KnownMatching[2].value>>

Reversed(ts) == [i \in 1..Len(ts) |-> ts[Len(ts) + 1 - i]]

\* C12: two transfers of identical to and from give a Mint if to is the
\* node's address and a Burn otherwise, and the same kind when the two
\* transfers are given in the other order.
C12_MintBurnSymmetry ==
    (ReturnedFrom("prove_dyn_action") /\ SameEnds(KnownMatching)) =>
        /\ ret.kind = "Some"
        /\ ret.val.kind = IF KnownMatching[1].to = PoolAddr THEN "Mint" ELSE "Burn"
        /\ prove_dyn_action(NodesOfTransfers(Reversed(arg.transfers)), 1, TokenA, TokenB).kind = "Some"
        /\ prove_dyn_action(NodesOfTransfers(Reversed(arg.transfers)), 1, TokenA, TokenB).val.kind = ret.val.kind

\* C13: with exactly two matching transfers that do not share both from and
\* to, prove_dyn_action returns a Swap whose token_out and amount_out are
\* those of the transfer into the node's address and whose token_in and
\* amount_in are those of the other transfer, in either order of the two.
C13_SwapOfTwo ==
    (ReturnedFrom("prove_dyn_action") /\ Len(KnownMatching) = 2 /\ ~SameEnds(KnownMatching)) =>
        /\ ret.kind = "Some"
        /\ ret.val.kind = "Swap"
        /\ \E i \in 1..2 :
               /\ KnownMatching[i].to = PoolAddr
               /\ ret.val.token_out = KnownMatching[i].token
               /\ ret.val.amount_out = KnownMatching[i].value
               /\ ret.val.token_in = KnownMatching[3 - i].token
               /\ ret.val.amount_in = KnownMatching[3 - i].value

\* m holds a transfer from a counterparty into the pool at i and one from
\* the pool back to that counterparty at the other position.
InAndOut(m, i) ==
    /\ Len(m) = 2
    /\ m[i].to = PoolAddr /\ m[i].from # PoolAddr
    /\ m[3 - i].from = PoolAddr /\ m[3 - i].to = m[i].from

\* C14: from a transfer A -> pool and a transfer pool -> A in the pool's
\* subtree, try_clasify_exchange returns a Swap with from = A, the inbound
\* leg as token_in and amount_in and the outbound leg as token_out and
\* amount_out, whichever of the two comes first.
C14_SwapSymmetry ==
    \A i \in 1..2 :
        (ReturnedFrom("try_clasify_exchange") /\ InAndOut(NewMatching, i)) =>
            /\ ret.kind = "Some"
            /\ ret.val.action.kind = "Swap"
            /\ ret.val.action.from = NewMatching[i].from
            /\ ret.val.action.token_in = NewMatching[i].token
            /\ ret.val.action.amount_in = NewMatching[i].value
            /\ ret.val.action.token_out = NewMatching[3 - i].token
            /\ ret.val.action.amount_out = NewMatching[3 - i].value

\* Exactly two transfers touch the pool, one out of it and one into it, of
\* different tokens and different senders.
IsNewExchange(m) ==
    /\ Len(m) = 2
    /\ \E i \in 1..2 : m[i].from = PoolAddr /\ m[3 - i].to = PoolAddr
    /\ m[1].token # m[2].token
    /\ m[1].from # m[2].from

\* C15: try_clasify_exchange returns a Swap and a registration only for
\* such a pair of transfers, and returns nothing in every other case.
C15_OnlyExchanges ==
    ReturnedFrom("try_clasify_exchange") =>
        /\ ret.kind = "Some" => IsNewExchange(NewMatching)
        /\ ~IsNewExchange(NewMatching) => ret = None

\* The number of matching transfers leaves the node's branch nothing to prove.
Ambiguous ==
    IF PoolAddr \in DOMAIN arg.cache
    THEN Len(KnownMatching) = 0 \/ Len(KnownMatching) > 2
    ELSE Len(NewMatching) # 2

\* C17: with zero or more than two matching transfers in the known-protocol
\* branch, or a number other than two in the new-exchange branch, the
\* transform closure leaves the node's action, children and finalized flag,
\* and every other node, as they were and returns no pair for the cache.
C17_AmbiguousLeftAlone ==
    (ReturnedFrom("closure") /\ Ambiguous) =>
        /\ ret.kind = "Ok"
        /\ ret.nodes = NodesOfTransfers(arg.transfers)
        /\ ret.new = <<>>

\* The closure has returned for a known protocol with three matching transfers.
C17_Witness ==
    /\ ReturnedFrom("closure")
    /\ PoolAddr \in DOMAIN arg.cache
    /\ Len(KnownMatching) = 3
    /\ ret.kind = "Ok"

\* C25: for any number of matching transfers in the node's subtree,
\* prove_dyn_action and try_clasify_exchange return an action or nothing and
\* the transform closure returns: none of them fails.
C25_InferenceNeverFails ==
    (op = "returned" /\ arg.fn \in {"prove_dyn_action", "try_clasify_exchange", "closure"}) =>
        ret.kind # "Panic"


(***************************************************************************)
(* build_tree on one transaction whose records carry a bounded list of     *)
(* distinct trace addresses, calls and tips to the block's beneficiary     *)
(* (SpecShaped).                                                           *)
(***************************************************************************)
\* The records of a transaction after its first.
MaxRecords == 3

PathPool == {<<0>>, <<1>>, <<0, 0>>, <<0, 1>>, <<0, 0, 0>>}

\* Lists of distinct trace addresses, in any order.
PathLists ==
    {s \in UNION {[1..n -> PathPool] : n \in 0..MaxRecords} :
         \A i, j \in DOMAIN s : i < j => s[i] # s[j]}

RecordKinds == {"call", "tip"}

\* The callers of the first record: the pool and a protocol of the static table.
HeadCallers == {PoolAddr, StaticAddr}

TipValue(path) == 10 * Len(path) + path[Len(path)]

\* A call at depth 1 emits a transfer out of the head's caller and an
\* approval, one at depth 2 a transfer of token A into the head's caller, one
\* at depth 3 a transfer of token B out of it.
CallRecord(h, path) ==
    IF Len(path) = 1
    THEN Record(TokenA, UserAddr, <<>>, <<HighTransfer(TokenA, h, UserAddr, 1), ApprovalLog(TokenA)>>, path)
    ELSE IF Len(path) = 2
    THEN Record(TokenA, UserAddr, <<>>, <<HighTransfer(TokenA, UserAddr, h, 1)>>, path)
    ELSE Record(TokenB, UserAddr, <<>>, <<HighTransfer(TokenB, h, UserAddr, 1)>>, path)

\* A call with value to the block's beneficiary.
TipRecord(path) ==
    [Record(UserAddr, BuilderAddr, <<>>, <<>>, path) EXCEPT !.value = TipValue(path)]

ShapedRecord(h, path, kind) == IF kind = "tip" THEN TipRecord(path) ELSE CallRecord(h, path)

ShapedTx(h, paths, kinds) ==
    [Tx(<<Record(h, UserAddr, <<>>, <<>>, <<>>)>>
        \o [i \in 1..Len(paths) |-> ShapedRecord(h, paths[i], kinds[i])]) EXCEPT !.tx_hash = 1]

ShapedTxs ==
    UNION {{ShapedTx(h, paths, kinds) : h \in HeadCallers, kinds \in [1..Len(paths) -> RecordKinds]}
           : paths \in PathLists}

\* A cache that holds the pool and the static protocol.
SeededCache == (PoolAddr :> <<TokenA, TokenB>>) @@ (StaticAddr :> <<TokenA, TokenB>>)

\* One call of build_tree; the second thread makes none.
InitShaped ==
    /\ \E tx \in ShapedTxs : traces = <<tx>>
    /\ header = [beneficiary |-> BuilderAddr, base_fee_per_gas |-> Some(1)]
    /\ \E seed \in {EmptyCache, SeededCache} : known = [c \in Classifiers |-> seed]
    /\ readers = [c \in Classifiers |-> {}]
    /\ writer = [c \in Classifiers |-> 0]
    /\ inst = [t \in Threads |-> 1]
    /\ pc = [t \in Threads |-> IF t = 1 THEN "build" ELSE "idle"]
    /\ tree = [t \in Threads |-> EmptyTree]
    /\ newc = [t \in Threads |-> <<>>]
    /\ branches = [t \in Threads |-> <<>>]
    /\ op = "none" /\ arg = None /\ ret = None

SpecShaped == InitShaped /\ [][Next]_vars


(***************************************************************************)
(* Properties of the Root of one transaction (SpecShaped).                 *)
(***************************************************************************)
\* The path of every child is a strict extension of its parent's path, and
\* the children of one node have different paths.
WellShaped(nodes) ==
    \A p \in DOMAIN nodes :
        /\ \A k \in DOMAIN nodes[p].inner :
               IsProperPrefix(nodes[p].trace_address, nodes[nodes[p].inner[k]].trace_address)
        /\ \A k, l \in DOMAIN nodes[p].inner :
               k < l => nodes[nodes[p].inner[k]].trace_address # nodes[nodes[p].inner[l]].trace_address

\* Every node but the head is the child of one node.
AllAttached(nodes) ==
    \A c \in DOMAIN nodes :
        c # 1 => \E p \in DOMAIN nodes : \E k \in DOMAIN nodes[p].inner : nodes[p].inner[k] = c

\* C21: in every Root, once it is built and after each later pass, the
\* trace-address path of every node that has a parent is a strict extension
\* of the parent's path and no two children of a node share a path; when the
\* Roots have been built, every node but the head has a parent.
C21_TreeShape ==
    \A t \in Threads :
        \A i \in DOMAIN tree[t].roots :
            /\ WellShaped(tree[t].roots[i].nodes)
            /\ pc[t] = "read" => AllAttached(tree[t].roots[i].nodes)

\* A returned tree with a node of depth 3 under a node of depth 2 and a
\* node with two children.
C21_Witness ==
    /\ pc[1] = "done"
    /\ \E p, q \in DOMAIN tree[1].roots[1].nodes :
           /\ Len(tree[1].roots[1].nodes[p].trace_address) = 2
           /\ \E k \in DOMAIN tree[1].roots[1].nodes[p].inner :
                  Len(tree[1].roots[1].nodes[tree[1].roots[1].nodes[p].inner[k]].trace_address) = 3
           /\ Len(tree[1].roots[1].nodes[q].inner) = 2

\* The positions of the records that are calls with value to the beneficiary.
TipPositions(trace) ==
    {j \in DOMAIN trace : trace[j].is_call /\ trace[j].value > 0 /\ trace[j].to = header.beneficiary}

FirstTip(trace) == trace[CHOOSE j \in TipPositions(trace) : \A k \in TipPositions(trace) : j <= k]

\* C22: the coinbase_transfer of a built Root holds the value of the first
\* record of the transaction that is a call with value to the block's
\* beneficiary, whatever records follow it, and is empty only when no record
\* is such a call.
C22_FirstCoinbaseTransfer ==
    \A t \in Threads :
        \A i \in DOMAIN tree[t].roots :
            tree[t].roots[i].gas_details.coinbase_transfer =
                IF TipPositions(traces[tree[t].roots[i].tx_hash].trace) = {}
                THEN None
                ELSE Some(FirstTip(traces[tree[t].roots[i].tx_hash].trace).value)

StaticAddresses == DOMAIN PROTOCOL_ADDRESS_MAPPING

\* The nodes of thread t's tree whose address is in the static table.
StaticNodes(t) ==
    {n \in AllNodes(tree[t]) : tree[t].roots[n[1]].nodes[n[2]].address \in StaticAddresses}

\* C24: a node whose address is in the static protocol table is never
\* handed to the transform closure; the inference pass leaves its action and
\* its children as they were, registers no pair for its address and adds
\* no static address to known_dyn_protocols.
C24_StaticNeverInferred ==
    /\ [](\A t \in Threads :
              /\ \A c \in ClosureCalls(t) : branches[t][c[1]][c[2]].address \notin StaticAddresses
              /\ \A k \in DOMAIN newc[t] : newc[t][k][1] \notin StaticAddresses)
    /\ [][\A t \in Threads :
              /\ pc[t] = "classify" =>
                     \A n \in StaticNodes(t) :
                         /\ tree'[t].roots[n[1]].nodes[n[2]].data = tree[t].roots[n[1]].nodes[n[2]].data
                         /\ tree'[t].roots[n[1]].nodes[n[2]].inner = tree[t].roots[n[1]].nodes[n[2]].inner
              /\ (DOMAIN known'[inst[t]]) \cap StaticAddresses = (DOMAIN known[inst[t]]) \cap StaticAddresses]_vars

\* The pass has ended on a tree whose head has a static address that is a
\* key of the cache, with children and a subtree that looks like an
\* exchange, and the transform closure was called on other nodes.
C24_Witness ==
    /\ pc[1] = "drop"
    /\ tree[1].roots[1].nodes[1].address \in StaticAddresses \cap DOMAIN known[1]
    /\ tree[1].roots[1].nodes[1].inner # <<>>
    /\ is_possible_exchange(get_all_sub_actions(tree[1].roots[1].nodes, 1))
    /\ ClosureCalls(1) # {}


(***************************************************************************)
(* Further properties of build_tree (Spec).                                *)
(***************************************************************************)
\* The header with a base fee in the place of a missing one.
WithBaseFee == [header EXCEPT !.base_fee_per_gas = Some(1)]

\* C23: with a header that carries no base fee, build_tree still builds a
\* Root for every transaction with a non-empty trace list, as it does for
\* the same block under a header with a base fee.
C23_NoBaseFeeStillBuilds ==
    \A t \in Threads :
        (/\ header.base_fee_per_gas = None
         /\ pc[t] # "build"
         /\ CollectRoots(traces, WithBaseFee, <<>>).kind # "Panic")
            => RootHashes(tree[t]) = NonEmptyHashes(traces)

Blocked(t) ==
    \/ pc[t] = "read" /\ writer[inst[t]] # 0
    \/ pc[t] = "write" /\ newc[t] # <<>> /\ (writer[inst[t]] # 0 \/ readers[inst[t]] # {})

\* A step of thread t, seen on the program counters: every step of
\* build_tree moves its thread's counter and no other.
Scheduled(t) ==
    /\ ~Finished(t)
    /\ ~Blocked(t)
    /\ \E p \in {PassOrder[i] : i \in DOMAIN PassOrder} \cup {"panicked"} : pc' = [pc EXCEPT ![t] = p]

\* Fair scheduling: a thread that can take a step eventually takes one.
SpecFair == Spec /\ \A t \in Threads : WF_pc(Scheduled(t))

\* C30: under fair scheduling every pass that starts takes the read lock,
\* releases it, goes through its write phase and returns to build_tree,
\* and no pass is in its write phase while it holds the read lock.
C30_EveryPassReturns ==
    /\ \A t \in Threads : (pc[t] = "read") ~> (pc[t] = After("write"))
    /\ [](\A t \in Threads : pc[t] = "write" => t \notin readers[inst[t]])



(***************************************************************************)
(* The trace parsers: poirot-core Parser::parse_block (decode.rs) and      *)
(* brontes-core TraceParser::execute_block (parser.rs), one call each on   *)
(* a bounded block (SpecParse).                                            *)
(***************************************************************************)
\* The transactions of a block and the records of a transaction's trace.
MaxBlockTxs == 2
MaxTraceLen == 2

Ok(v) == [kind |-> "Ok", val |-> v]
Err(e) == [kind |-> "Err", err |-> e]

\* The first n elements of a list, none when n is not positive.
Take(l, n) == IF n <= 0 THEN <<>> ELSE SubSeq(l, 1, IF n < Len(l) THEN n ELSE Len(l))

TxHash(i) == 100 + i

\* ---- poirot-core ----
\* What the ABI client and the decoders make of a record: a create, a call
\* whose ABI cannot be fetched, a call that decodes, a call whose selector no
\* ABI knows.
PoirotRecords == {"create", "abi_err", "decoded", "unknown"}

PoirotTraceLists == UNION {[1..n -> PoirotRecords] : n \in 0..MaxTraceLen}

\* Transaction i of a block: its trace is missing, or is l without its last
\* i - 1 records.
PoirotTx(l, i, missing) ==
    [transaction_hash |-> TxHash(i),
     full_trace |-> [trace |-> IF i \in missing THEN None ELSE Some(Take(l, Len(l) - (i - 1)))]]

PoirotBlocks ==
    UNION {{[i \in 1..n |-> PoirotTx(l, i, missing)] : l \in PoirotTraceLists, missing \in SUBSET (1..n)}
           : n \in 0..MaxBlockTxs}

\* decode.rs lines 108-197: the loop of parse_tx over the records.
RECURSIVE StructuredTraces(_, _)
StructuredTraces(records, pos) ==
    IF pos > Len(records) THEN <<>>
    ELSE IF records[pos] = "abi_err" THEN StructuredTraces(records, pos + 1)
    ELSE <<[kind |-> IF records[pos] = "create" THEN "CREATE" ELSE "CALL",
            function_name |-> IF records[pos] = "unknown" THEN "unknown" ELSE records[pos],
            position |-> pos]>> \o StructuredTraces(records, pos + 1)

\* Parser::parse_tx, lines 99-200.
parse_tx(trace, tx_index) ==
    IF trace.full_trace.trace.kind = "None"
    THEN Err("TraceMissing")
    ELSE Ok([trace |-> StructuredTraces(trace.full_trace.trace.val, 1),
             tx_hash |-> trace.transaction_hash,
             tx_index |-> tx_index])

\* The match of lines 81-91 on the result of parse_tx.
Pushed(result, r, trace, idx) ==
    IF r.kind = "Ok" THEN Append(result, r.val) ELSE result

\* Parser::parse_block, lines 65-94: idx counts from 0.
RECURSIVE ParseLoop(_, _, _)
ParseLoop(block_trace, idx, result) ==
    IF idx >= Len(block_trace) THEN result
    ELSE ParseLoop(block_trace, idx + 1,
                   Pushed(result, parse_tx(block_trace[idx + 1], idx), block_trace[idx + 1], idx))

poirot_parse_block(block_trace) == ParseLoop(block_trace, 0, <<>>)

\* ---- brontes-core ----
\* A trace record: a call or a create, and whether the ABI client has the
\* ABI of the call's target.
TraceRecords ==
    {[action |-> "call", abi |-> "ok"], [action |-> "call", abi |-> "err"], [action |-> "create", abi |-> "ok"]}

TraceLists == UNION {[1..n -> TraceRecords] : n \in 0..MaxTraceLen}

\* Transaction i of a replayed block; its VM trace tells that every call
\* emits one log.
ReplayedTx(l, i) ==
    [transaction_hash |-> TxHash(i),
     full_trace |-> [trace |-> Take(l, Len(l) - (i - 1)),
                     vm_trace |-> Some([j \in 1..Len(Take(l, Len(l) - (i - 1))) |->
                                            IF l[j].action = "call" THEN 1 ELSE 0])]]

\* The receipt of transaction i, with one log for each of its calls.
Receipt(tx, i) ==
    [transaction_hash |-> tx.transaction_hash,
     transaction_index |-> i - 1,
     gas_used |-> Some(21),
     effective_gas_price |-> 3,
     logs |-> [k \in 1..Len(SelectSeq(tx.full_trace.trace, LAMBDA r : r.action = "call")) |->
                   [tx |-> tx.transaction_hash, log_index |-> k]]]

ReplayedBlocks ==
    UNION {{[i \in 1..n |-> ReplayedTx(l, i)] : l \in TraceLists} : n \in 0..MaxBlockTxs}

ReceiptsOf(block) == [i \in 1..Len(block) |-> Receipt(block[i], i)]

BlockHeader == [beneficiary |-> BuilderAddr, base_fee_per_gas |-> Some(1)]

\* The answers of the tracing provider: the value, nothing, or an error.
ProviderAnswers(v) == {Ok(Some(v)), Ok(None), Err("provider")}

\* link_vm_to_trace (vm_linker.rs, not among the sources): one record for
\* each call-trace record, in order, with the receipt logs the VM trace
\* gives it.
RECURSIVE LogsBefore(_, _)
LogsBefore(vm, pos) == IF pos <= 1 THEN 0 ELSE vm[pos - 1] + LogsBefore(vm, pos - 1)

link_vm_to_trace(vm, tx_trace, logs) ==
    [pos \in 1..Len(tx_trace) |->
         [trace |-> tx_trace[pos],
          logs |-> SubSeq(logs, LogsBefore(vm, pos) + 1, LogsBefore(vm, pos) + vm[pos]),
          trace_idx |-> pos - 1]]

\* update_abi_cache, lines 209-239: only a call whose ABI the client cannot
\* fetch gives an error; the result of the decoding pipeline is dropped.
update_abi_cache(trace) ==
    IF trace.action # "call" THEN Ok(<<>>)
    ELSE IF trace.abi = "err" THEN Err("EtherscanError")
    ELSE Ok(<<>>)

TraceStat(tx_hash, tx_idx, idx, abi_trace) ==
    [tx_hash |-> tx_hash, tx_idx |-> tx_idx, trace_idx |-> idx,
     err |-> IF abi_trace.kind = "Err" THEN Some(abi_trace.err) ELSE None]

\* The loop of parse_transaction that leaves out a record without ABI.
RECURSIVE LinkedLoopSkipping(_, _, _, _)
LinkedLoopSkipping(linked, tx_hash, tx_idx, acc) ==
    IF linked = <<>> THEN acc
    ELSE LinkedLoopSkipping(Tail(linked), tx_hash, tx_idx,
             IF update_abi_cache(Head(linked).trace).kind = "Err" THEN acc
             ELSE [traces |-> Append(acc.traces, Head(linked)),
                   stats  |-> Append(acc.stats, TraceStat(tx_hash, tx_idx, Len(acc.stats),
                                                          update_abi_cache(Head(linked).trace)))])

\* parse_transaction, lines 186-198: the loop over the linked records.
RECURSIVE LinkedLoop(_, _, _, _)
LinkedLoop(linked, tx_hash, tx_idx, acc) ==
    IF linked = <<>> THEN acc
    ELSE LinkedLoop(Tail(linked), tx_hash, tx_idx,
             [traces |-> Append(acc.traces, Head(linked)),
              stats  |-> Append(acc.stats, TraceStat(tx_hash, tx_idx, Len(acc.stats),
                                                     update_abi_cache(Head(linked).trace)))])

ParsedTransaction(tx_hash, tx_idx, gas_used, effective_gas_price, looped) ==
    [trace |-> [trace |-> looped.traces, tx_hash |-> tx_hash, tx_index |-> tx_idx,
                gas_used |-> gas_used, effective_price |-> effective_gas_price],
     stats |-> [tx_hash |-> tx_hash, tx_idx |-> tx_idx, traces |-> looped.stats, err |-> None]]

\* TraceParser::parse_transaction, lines 165-206.
parse_transaction(tx_trace, vm, logs, tx_hash, tx_idx, gas_used, effective_gas_price) ==
    ParsedTransaction(tx_hash, tx_idx, gas_used, effective_gas_price,
                      LinkedLoop(link_vm_to_trace(vm, tx_trace, logs), tx_hash, tx_idx,
                                 [traces |-> <<>>, stats |-> <<>>]))

\* The closure of lines 126-143 on one (trace, receipt) pair of the zip.
ParsedPair(trace, receipt) ==
    IF trace.full_trace.vm_trace.kind = "None" \/ receipt.gas_used.kind = "None" THEN Panic
    ELSE Some(parse_transaction(trace.full_trace.trace, trace.full_trace.vm_trace.val, receipt.logs,
                                trace.transaction_hash, receipt.transaction_index,
                                receipt.gas_used.val, receipt.effective_gas_price))

Min(a, b) == IF a < b THEN a ELSE b

\* TraceParser::parse_block, lines 117-162: the zip ends with the shorter list.
ParsedBlock(pairs, hdr) ==
    IF \E i \in DOMAIN pairs : pairs[i].kind = "Panic" THEN Panic
    ELSE IF hdr.kind # "Ok" \/ hdr.val.kind # "Some" THEN Panic
    ELSE Some([traces |-> [i \in DOMAIN pairs |-> pairs[i].val.trace],
               stats  |-> [err |-> None, txs |-> [i \in DOMAIN pairs |-> pairs[i].val.stats]],
               header |-> hdr.val.val])

parse_block(block_trace, block_receipts, hdr) ==
    ParsedBlock([i \in 1..Min(Len(block_trace), Len(block_receipts)) |->
                     ParsedPair(block_trace[i], block_receipts[i])], hdr)

\* trace_block, lines 61-91, and get_receipts, lines 94-115: the value and the block stats.
trace_block(answer) ==
    IF answer.kind = "Ok" /\ answer.val.kind = "Some" THEN <<answer.val, [err |-> None, txs |-> <<>>]>>
    ELSE IF answer.kind = "Ok" THEN <<None, [err |-> Some("TracesMissingBlock"), txs |-> <<>>]>>
    ELSE <<None, [err |-> Some(answer.err), txs |-> <<>>]>>

get_receipts(answer) ==
    IF answer.kind = "Ok" /\ answer.val.kind = "Some" THEN <<answer.val, [err |-> None, txs |-> <<>>]>>
    ELSE IF answer.kind = "Ok" THEN <<None, [err |-> Some("TracesMissingBlock"), txs |-> <<>>]>>
    ELSE <<None, [err |-> None, txs |-> <<>>]>>

\* The result of execute_block and the block metric events it has sent.
Returned(kind, val, metrics) == [kind |-> kind, val |-> val, metrics |-> metrics]

Executed(parsed) ==
    IF parsed.kind = "Panic" THEN Returned("Panic", <<>>, <<>>)
    ELSE Returned("Some", <<parsed.val.traces, parsed.val.header>>, <<parsed.val.stats>>)

\* TraceParser::execute_block, lines 41-59, on the results of trace_block
\* and get_receipts: the unwraps of line 52 panic on a missing value.
ExecuteBlock(parity_trace, receipts, hdr) ==
    IF parity_trace[1].kind = "None" /\ receipts[1].kind = "None"
    THEN Returned("None", <<>>, <<parity_trace[2]>>)
    ELSE IF parity_trace[1].kind = "None" \/ receipts[1].kind = "None"
    THEN Returned("Panic", <<>>, <<>>)
    ELSE Executed(parse_block(parity_trace[1].val, receipts[1].val, hdr))

execute_block(replayed, block_receipts, hdr) ==
    ExecuteBlock(trace_block(replayed), get_receipts(block_receipts), hdr)

ParseInputs ==
    {[fn |-> "parse_block", block |-> b] : b \in PoirotBlocks}
    \cup UNION {{[fn |-> "execute_block", block |-> b, replayed |-> t, block_receipts |-> r]
                 : t \in ProviderAnswers(b), r \in ProviderAnswers(ReceiptsOf(b))}
                : b \in ReplayedBlocks}

InitParse ==
    /\ traces = <<>>
    /\ header = BlockHeader
    /\ known = [c \in Classifiers |-> EmptyCache]
    /\ readers = [c \in Classifiers |-> {}]
    /\ writer = [c \in Classifiers |-> 0]
    /\ inst = [t \in Threads |-> 1]
    /\ pc = [t \in Threads |-> "idle"]
    /\ tree = [t \in Threads |-> EmptyTree]
    /\ newc = [t \in Threads |-> <<>>]
    /\ branches = [t \in Threads |-> <<>>]
    /\ op = "none" /\ arg \in ParseInputs /\ ret = None

CallParseBlock ==
    /\ op = "none"
    /\ arg.fn = "parse_block"
    /\ ret' = poirot_parse_block(arg.block)
    /\ op' = "returned"
    /\ UNCHANGED <<traces, header, known, readers, writer, inst, pc, tree, newc, branches, arg>>

CallExecuteBlock ==
    /\ op = "none"
    /\ arg.fn = "execute_block"
    /\ ret' = execute_block(arg.replayed, arg.block_receipts, Ok(Some(header)))
    /\ op' = "returned"
    /\ UNCHANGED <<traces, header, known, readers, writer, inst, pc, tree, newc, branches, arg>>

NextParse == CallParseBlock \/ CallExecuteBlock

SpecParse == InitParse /\ [][NextParse]_vars


(***************************************************************************)
(* Properties of the trace parsers (SpecParse).                            *)
(***************************************************************************)
\* C26: parse_block of poirot-core returns one TxTrace for each transaction
\* of the block trace, in input order; a transaction whose parsing fails is
\* in the result with an empty trace.
C26_EveryTransactionStored ==
    ReturnedFrom("parse_block") =>
        /\ Len(ret) = Len(arg.block)
        /\ \A i \in DOMAIN arg.block :
               /\ ret[i].tx_hash = arg.block[i].transaction_hash
               /\ arg.block[i].full_trace.trace.kind = "None" => ret[i].trace = <<>>

Available(answer) == answer.kind = "Ok" /\ answer.val.kind = "Some"

\* The linked records of transaction i of the replayed block.
LinkedRecords(i) ==
    link_vm_to_trace(arg.block[i].full_trace.vm_trace.val, arg.block[i].full_trace.trace,
                     ReceiptsOf(arg.block)[i].logs)

\* C27: when the block's traces and receipts are there, execute_block
\* yields one TxTrace for each transaction of the block, with its hash and
\* with exactly the linked records of the transaction in their order; every
\* record has one stat, which carries an error exactly when the ABI lookup
\* of the record failed, and the transaction's own stat carries none.
C27_OneTraceEach ==
    (ReturnedFrom("execute_block") /\ Available(arg.replayed) /\ Available(arg.block_receipts)) =>
        /\ ret.kind = "Some"
        /\ Len(ret.val[1]) = Len(arg.block)
        /\ Len(ret.metrics) = 1 /\ Len(ret.metrics[1].txs) = Len(arg.block)
        /\ \A i \in DOMAIN arg.block :
               /\ ret.val[1][i].tx_hash = arg.block[i].transaction_hash
               /\ ret.val[1][i].trace = LinkedRecords(i)
               /\ ret.metrics[1].txs[i].err = None
               /\ Len(ret.metrics[1].txs[i].traces) = Len(LinkedRecords(i))
               /\ \A j \in DOMAIN LinkedRecords(i) :
                      /\ ret.metrics[1].txs[i].traces[j].trace_idx = j - 1
                      /\ ret.metrics[1].txs[i].traces[j].err # None
                             <=> update_abi_cache(LinkedRecords(i)[j].trace).kind = "Err"

\* A block of two transactions was parsed, and the ABI lookup failed for a
\* record that is followed by another.
C27_Witness ==
    /\ ReturnedFrom("execute_block")
    /\ ret.kind = "Some"
    /\ Len(ret.val[1]) = 2
    /\ Len(ret.val[1][1].trace) = 2
    /\ ret.metrics[1].txs[1].traces[1].err # None

\* C28: execute_block returns None, with exactly one block metric event
\* sent, whenever the traces or the receipts of the block are missing, and
\* the parsed traces with the header otherwise; it never fails.
C28_MissingInputGivesNone ==
    ReturnedFrom("execute_block") =>
        IF Available(arg.replayed) /\ Available(arg.block_receipts)
        THEN ret.kind = "Some" /\ ret.val[2] = header /\ Len(ret.metrics) = 1
        ELSE ret.kind = "None" /\ Len(ret.metrics) = 1

====
